---- MODULE Spec2Model ----
(***************************************************************************)
(* Model of slideshow.py: the Slideshow object (current_index,             *)
(* scroll_offset, show_notes, notes_height), the key loop of               *)
(* Slideshow.run with its nested index-browse loop, help pass-through and  *)
(* number entry, and the part of _render_slide that writes scroll_offset.  *)
(*                                                                         *)
(* A slide is represented by the number of lines of its extracted content  *)
(* (len(content_lines) in _render_slide); that number does not depend on   *)
(* the terminal width.  The terminal height is read from the environment   *)
(* by every render (_get_terminal_size), so each render draws it anew.     *)
(***************************************************************************)
EXTENDS Integers, Sequences, FiniteSets, TLC

\* ---------------------------------------------------------------- bounds
MaxSlides == 3      \* decks of 0..MaxSlides slides
MaxLines == 8       \* content lines of the tallest slide
MaxHeight == 12     \* tallest terminal
MaxDigits == 2      \* characters accepted by the number entry

\* ------------------------------------------------------ program constants
InitNotesHeight == 6
NotesStep == 2
NotesMin == 2
NotesMax == 20
NotesBorder == 4
StatusBarLines == 1
ScrollLines == 3

\* ------------------------------------------------------------- inputs
\* Decks of 0..MaxSlides slides, tall and short slides alternating.
Decks ==
    {[i \in 1..n |-> IF i % 2 = 1 THEN MaxLines ELSE 2] : n \in 0..MaxSlides}
TermHeights == {MaxHeight \div 2, MaxHeight}
\* Digit keys: enough to type 0, every slide number and one past the last.
Digits == 0..(MaxSlides + 1)

ScrollDownKeys == {"j"}
ScrollUpKeys == {"k"}
NextKeys == {"n"}
PrevKeys == {"p"}
QuitKeys == {"q", "x"}
IndexConfirmKeys == {"ENTER"}
IndexCancelKeys == {"q", "i"}
\* Keys tried on the help screen, which accepts any key.
AnyKey == {"j", "n", "s", "+", "h", "q", "x"}

NoSelection == -1

Max(a, b) == IF a > b THEN a ELSE b
Min(a, b) == IF a < b THEN a ELSE b

VARIABLES
    slides,                 \* self.slides: content line count of each slide
    current_index,          \* self.current_index (0-based)
    scroll_offset,          \* self.scroll_offset
    show_notes,             \* self.show_notes
    notes_height,           \* self.notes_height
    moved,                  \* last value returned by next_/prev_/goto_slide
    pc,                     \* where run() is: start, normal, index, help,
                            \* goto, done
    branch,                 \* branch of run()'s if/elif chain taken for the
                            \* last key the main loop read
    keypress,               \* last key read (_get_keypress, or the read of
                            \* _get_number_input)
    selected,               \* local `selected` of the index-browse loop
    num_str,                \* local `num_str` of _get_number_input
    height,                 \* terminal height read by the last render
    total_content_height,   \* locals of the last _render_slide
    available_height,
    needs_scroll,
    frame,                  \* the object state the last _render_slide printed
    screen_lines,           \* rows of the content region it printed: 0 is a
                            \* blank row, k the k-th content line
    call                    \* a call of one of the text functions: its
                            \* arguments and, once made, its result

nav == <<current_index, scroll_offset, show_notes, notes_height>>
layout ==
    <<height, total_content_height, available_height, needs_scroll, frame,
      screen_lines>>
vars == <<slides, current_index, scroll_offset, show_notes, notes_height,
          moved, pc, branch, keypress, selected, num_str, height,
          total_content_height, available_height, needs_scroll, frame,
          screen_lines, call>>

\* The Slideshow object as a record, so that the methods compose.
Self ==
    [current_index |-> current_index, scroll_offset |-> scroll_offset,
     show_notes |-> show_notes, notes_height |-> notes_height,
     moved |-> moved]

\* ------------------------------------------------------------- methods
next_slide_unguarded(s) ==
    [s EXCEPT !.current_index = @ + 1, !.scroll_offset = 0, !.moved = TRUE]

next_slide(s) ==
    IF s.current_index < Len(slides) - 1
    THEN [s EXCEPT !.current_index = @ + 1, !.scroll_offset = 0,
                   !.moved = TRUE]
    ELSE [s EXCEPT !.moved = FALSE]

prev_slide_resets_always(s) ==
    IF s.current_index > 0
    THEN [s EXCEPT !.current_index = @ - 1, !.scroll_offset = 0,
                   !.moved = TRUE]
    ELSE [s EXCEPT !.scroll_offset = 0, !.moved = FALSE]

prev_slide(s) ==
    IF s.current_index > 0
    THEN [s EXCEPT !.current_index = @ - 1, !.scroll_offset = 0,
                   !.moved = TRUE]
    ELSE [s EXCEPT !.moved = FALSE]

goto_slide_keeps_scroll(s, index) ==
    IF 1 <= index /\ index <= Len(slides)
    THEN [s EXCEPT !.current_index = index - 1, !.moved = TRUE]
    ELSE [s EXCEPT !.moved = FALSE]

goto_slide_no_lower_bound(s, index) ==
    IF index <= Len(slides)
    THEN [s EXCEPT !.current_index = index - 1, !.scroll_offset = 0,
                   !.moved = TRUE]
    ELSE [s EXCEPT !.moved = FALSE]

goto_slide(s, index) ==
    IF 1 <= index /\ index <= Len(slides)
    THEN [s EXCEPT !.current_index = index - 1, !.scroll_offset = 0,
                   !.moved = TRUE]
    ELSE [s EXCEPT !.moved = FALSE]

scroll_down(s, lines) == [s EXCEPT !.scroll_offset = @ + lines]

scroll_up(s, lines) == [s EXCEPT !.scroll_offset = Max(0, @ - lines)]

first_slide(s) == [s EXCEPT !.current_index = 0, !.scroll_offset = 0]

last_slide(s) ==
    [s EXCEPT !.current_index = Len(slides) - 1, !.scroll_offset = 0]

toggle_notes_resets_height(s) ==
    [s EXCEPT !.show_notes = ~@, !.notes_height = InitNotesHeight]

toggle_notes(s) == [s EXCEPT !.show_notes = ~@]

grow_notes_unclamped(s) == [s EXCEPT !.notes_height = @ + NotesStep]

grow_notes(s) ==
    [s EXCEPT !.notes_height = Min(@ + NotesStep, NotesMax)]

shrink_notes(s) ==
    [s EXCEPT !.notes_height = Max(@ - NotesStep, NotesMin)]

\* ------------------------------------------------------------- render
notes_panel_height(s) ==
    IF s.show_notes THEN s.notes_height + NotesBorder ELSE 0

\* No text function is called in a run of the key loop.
NoCall == [fn |-> "none"]

\* Nothing printed yet.
NoFrame ==
    [current_index |-> 0, scroll_offset |-> 0, show_notes |-> FALSE,
     notes_height |-> 0]

\* slides[i] of a Python list: indices -N..N-1 are valid, any other raises
\* IndexError.
InRange(i) == -Len(slides) <= i /\ i < Len(slides)
slide_at(i) == slides[IF i < 0 THEN i + Len(slides) + 1 ELSE i + 1]

\* seq[start:end] of a Python list: a negative index counts from the end,
\* and both are clipped to the list.
py_index(n, i) == IF i < 0 THEN Max(0, i + n) ELSE Min(i, n)
py_slice(seq, start, end) ==
    LET lo == py_index(Len(seq), start)
        hi == py_index(Len(seq), end)
    IN  IF lo < hi THEN SubSeq(seq, lo + 1, hi) ELSE <<>>

\* The rows appended by `for _ in range(k)`: none when k is negative.
blank_rows(k) == [i \in 1..k |-> 0]

\* _render_slide on object s with terminal height h: the object after the
\* scroll clamp, and the layout locals.  `raised` is the IndexError of
\* self.slides[self.current_index], which leaves the object as it was.
render_slide(s, h) ==
    IF ~InRange(s.current_index)
    THEN [self |-> s, raised |-> TRUE, height |-> h,
          total_content_height |-> 0, available_height |-> 0,
          needs_scroll |-> FALSE, frame |-> NoFrame, screen_lines |-> <<>>]
    ELSE
    LET total == slide_at(s.current_index)
        avail == h - StatusBarLines - notes_panel_height(s)
        needs == total > avail
        max_scroll == total - avail
        offset == IF needs THEN Max(0, Min(s.scroll_offset, max_scroll))
                  ELSE 0
        content_lines == [i \in 1..total |-> i]
        visible_lines == IF needs
                         THEN py_slice(content_lines, offset, offset + avail)
                         ELSE content_lines
        top_padding == IF needs THEN 0 ELSE Max(0, (avail - total) \div 2)
        upper == blank_rows(top_padding) \o visible_lines
        bottom_padding == avail - Len(upper)
    IN  [self |-> [s EXCEPT !.scroll_offset = offset],
         frame |-> [current_index |-> s.current_index,
                    scroll_offset |-> offset,
                    show_notes |-> s.show_notes,
                    notes_height |-> s.notes_height],
         raised |-> FALSE,
         height |-> h,
         total_content_height |-> total,
         available_height |-> avail,
         needs_scroll |-> needs,
         screen_lines |-> upper \o blank_rows(bottom_padding)]

\* Store the object and the layout a render produced and continue at
\* `continue`; an exception leaves run() through its finally clause.
Commit(r, continue) ==
    /\ current_index' = r.self.current_index
    /\ scroll_offset' = r.self.scroll_offset
    /\ show_notes' = r.self.show_notes
    /\ notes_height' = r.self.notes_height
    /\ moved' = r.self.moved
    /\ IF r.raised
       THEN /\ pc' = "done"
            /\ UNCHANGED layout
       ELSE /\ pc' = continue
            /\ height' = r.height
            /\ total_content_height' = r.total_content_height
            /\ available_height' = r.available_height
            /\ needs_scroll' = r.needs_scroll
            /\ frame' = r.frame
            /\ screen_lines' = r.screen_lines

\* A handler that ends in _render_slide and goes back to the key read of
\* the main loop.
Rendered(s) == \E h \in TermHeights : Commit(render_slide(s, h), "normal")

\* ------------------------------------------------------------- Init
Init ==
    /\ slides \in Decks
    /\ current_index = 0
    /\ scroll_offset = 0
    /\ show_notes = FALSE
    /\ notes_height = InitNotesHeight
    /\ moved = FALSE
    /\ pc = "start"
    /\ branch = ""
    /\ keypress = ""
    /\ selected = NoSelection
    /\ num_str = <<>>
    /\ height = 0
    /\ total_content_height = 0
    /\ available_height = 0
    /\ needs_scroll = FALSE
    /\ frame = NoFrame
    /\ screen_lines = <<>>
    /\ call = NoCall

\* -------------------------------------------------------------- run()
\* run() up to the first key read: an empty deck returns at once.
Start ==
    /\ pc = "start"
    /\ IF slides = <<>>
       THEN /\ pc' = "done"
            /\ UNCHANGED <<nav, moved, layout>>
       ELSE Rendered(Self)
    /\ UNCHANGED <<slides, call, branch, keypress, selected, num_str>>

KeyScrollDown ==
    /\ pc = "normal"
    /\ branch' = "scroll_down"
    /\ keypress' \in ScrollDownKeys
    /\ Rendered(scroll_down(Self, ScrollLines))
    /\ UNCHANGED <<slides, call, selected, num_str>>

KeyScrollUp ==
    /\ pc = "normal"
    /\ branch' = "scroll_up"
    /\ keypress' \in ScrollUpKeys
    /\ Rendered(scroll_up(Self, ScrollLines))
    /\ UNCHANGED <<slides, call, selected, num_str>>

KeyNext ==
    /\ pc = "normal"
    /\ branch' = "next"
    /\ keypress' \in NextKeys
    /\ Rendered(next_slide(Self))
    /\ UNCHANGED <<slides, call, selected, num_str>>

KeyPrev ==
    /\ pc = "normal"
    /\ branch' = "prev"
    /\ keypress' \in PrevKeys
    /\ Rendered(prev_slide(Self))
    /\ UNCHANGED <<slides, call, selected, num_str>>

KeyFirst ==
    /\ pc = "normal"
    /\ branch' = "first"
    /\ keypress' = "f"
    /\ Rendered(first_slide(Self))
    /\ UNCHANGED <<slides, call, selected, num_str>>

KeyLast_without_render ==
    /\ pc = "normal"
    /\ branch' = "last"
    /\ keypress' = "l"
    /\ current_index' = Len(slides) - 1
    /\ scroll_offset' = 0
    /\ UNCHANGED <<slides, call, show_notes, notes_height, moved, pc,
                   selected, num_str, layout>>

KeyLast ==
    /\ pc = "normal"
    /\ branch' = "last"
    /\ keypress' = "l"
    /\ Rendered(last_slide(Self))
    /\ UNCHANGED <<slides, call, selected, num_str>>

KeyToggleNotes ==
    /\ pc = "normal"
    /\ branch' = "toggle_notes"
    /\ keypress' = "s"
    /\ Rendered(toggle_notes(Self))
    /\ UNCHANGED <<slides, call, selected, num_str>>

KeyGrowNotes ==
    /\ pc = "normal"
    /\ branch' = "grow_notes"
    /\ keypress' = "+"
    /\ IF show_notes
       THEN Rendered(grow_notes(Self))
       ELSE UNCHANGED <<nav, moved, pc, layout>>
    /\ UNCHANGED <<slides, call, selected, num_str>>

KeyShrinkNotes ==
    /\ pc = "normal"
    /\ branch' = "shrink_notes"
    /\ keypress' = "-"
    /\ IF show_notes
       THEN Rendered(shrink_notes(Self))
       ELSE UNCHANGED <<nav, moved, pc, layout>>
    /\ UNCHANGED <<slides, call, selected, num_str>>

KeyRefresh ==
    /\ pc = "normal"
    /\ branch' = "refresh"
    /\ keypress' = "r"
    /\ Rendered(Self)
    /\ UNCHANGED <<slides, call, selected, num_str>>

KeyQuit_keeps_reading ==
    /\ pc = "normal"
    /\ branch' = "quit"
    /\ keypress' \in QuitKeys
    /\ UNCHANGED <<slides, call, nav, moved, pc, selected, num_str, layout>>

KeyQuit ==
    /\ pc = "normal"
    /\ branch' = "quit"
    /\ keypress' \in QuitKeys
    /\ pc' = "done"
    /\ UNCHANGED <<slides, call, nav, moved, selected, num_str, layout>>

\* --------------------------------------------------- index-browse loop
KeyIndex ==
    /\ pc = "normal"
    /\ branch' = "index"
    /\ keypress' = "i"
    /\ selected' = current_index
    /\ pc' = "index"
    /\ UNCHANGED <<slides, call, nav, moved, num_str, layout>>

IndexUp ==
    /\ pc = "index"
    /\ keypress' = "k"
    /\ selected' = Max(0, selected - 1)
    /\ UNCHANGED <<slides, call, branch, nav, moved, pc, num_str, layout>>

IndexDown_unclamped ==
    /\ pc = "index"
    /\ keypress' = "j"
    /\ selected' = selected + 1
    /\ UNCHANGED <<slides, call, branch, nav, moved, pc, num_str, layout>>

IndexDown ==
    /\ pc = "index"
    /\ keypress' = "j"
    /\ selected' = Min(Len(slides) - 1, selected + 1)
    /\ UNCHANGED <<slides, call, branch, nav, moved, pc, num_str, layout>>

\* `selected` is a local that every entry overwrites before it is read;
\* it is cleared when the loop is left.
IndexConfirm ==
    /\ pc = "index"
    /\ keypress' \in IndexConfirmKeys
    /\ Rendered(goto_slide(Self, selected + 1))
    /\ selected' = NoSelection
    /\ UNCHANGED <<slides, call, branch, num_str>>

IndexCancel_confirms ==
    /\ pc = "index"
    /\ keypress' \in IndexCancelKeys
    /\ Rendered(goto_slide(Self, selected + 1))
    /\ selected' = NoSelection
    /\ UNCHANGED <<slides, call, branch, num_str>>

IndexCancel ==
    /\ pc = "index"
    /\ keypress' \in IndexCancelKeys
    /\ Rendered(Self)
    /\ selected' = NoSelection
    /\ UNCHANGED <<slides, call, branch, num_str>>

\* ---------------------------------------------------------------- help
KeyHelp ==
    /\ pc = "normal"
    /\ branch' = "help"
    /\ keypress' = "h"
    /\ pc' = "help"
    /\ UNCHANGED <<slides, call, nav, moved, selected, num_str, layout>>

HelpDismiss_acts_on_quit ==
    /\ pc = "help"
    /\ keypress' \in AnyKey
    /\ IF keypress' \in QuitKeys
       THEN pc' = "done" /\ UNCHANGED <<nav, moved, layout>>
       ELSE Rendered(Self)
    /\ UNCHANGED <<slides, call, branch, selected, num_str>>

\* The key that dismisses the help screen is read and discarded.
HelpDismiss ==
    /\ pc = "help"
    /\ keypress' \in AnyKey
    /\ Rendered(Self)
    /\ UNCHANGED <<slides, call, branch, selected, num_str>>

\* ------------------------------------------------------- number entry
RECURSIVE int(_)
\* int(num_str) of a string of decimal digits, most significant first.
int(ds) ==
    IF ds = <<>> THEN 0
    ELSE 10 * int(SubSeq(ds, 1, Len(ds) - 1)) + ds[Len(ds)]

KeyGoto ==
    /\ pc = "normal"
    /\ branch' = "goto"
    /\ keypress' = "g"
    /\ num_str' = <<>>
    /\ pc' = "goto"
    /\ UNCHANGED <<slides, call, nav, moved, selected, layout>>

GotoDigit ==
    /\ pc = "goto"
    /\ Len(num_str) < MaxDigits
    /\ keypress' = "digit"
    /\ \E d \in Digits : num_str' = Append(num_str, d)
    /\ UNCHANGED <<slides, call, branch, nav, moved, pc, selected, layout>>

GotoBackspace ==
    /\ pc = "goto"
    /\ keypress' = "BACKSPACE"
    /\ num_str' = IF num_str # <<>>
                  THEN SubSeq(num_str, 1, Len(num_str) - 1)
                  ELSE num_str
    /\ UNCHANGED <<slides, call, branch, nav, moved, pc, selected, layout>>

\* Escape: _get_number_input returns None, goto_slide is not called.
GotoEscape ==
    /\ pc = "goto"
    /\ keypress' = "ESC"
    /\ Rendered(Self)
    /\ num_str' = <<>>
    /\ UNCHANGED <<slides, call, branch, selected>>

\* Enter: int(num_str), or None for an empty entry.
GotoEnter ==
    /\ pc = "goto"
    /\ keypress' = "ENTER"
    /\ IF num_str # <<>>
       THEN Rendered(goto_slide(Self, int(num_str)))
       ELSE Rendered(Self)
    /\ num_str' = <<>>
    /\ UNCHANGED <<slides, call, branch, selected>>

Next ==
    \/ Start
    \/ KeyScrollDown
    \/ KeyScrollUp
    \/ KeyNext
    \/ KeyPrev
    \/ KeyFirst
    \/ KeyLast
    \/ KeyToggleNotes
    \/ KeyGrowNotes
    \/ KeyShrinkNotes
    \/ KeyRefresh
    \/ KeyQuit
    \/ KeyIndex
    \/ IndexUp
    \/ IndexDown
    \/ IndexConfirm
    \/ IndexCancel
    \/ KeyHelp
    \/ HelpDismiss
    \/ KeyGoto
    \/ GotoDigit
    \/ GotoBackspace
    \/ GotoEscape
    \/ GotoEnter

Spec == Init /\ [][Next]_vars

\* The key loop under the assumption that a quit key is pressed at some key
\* read of the main loop if the main loop keeps reading keys.
FairSpec == Spec /\ SF_vars(KeyQuit)

\* -----------------------------------------------------------------
\* The text functions, each called on its own: `call` holds the arguments
\* and, once the call is made, the result.  The key loop is not running.
\* -----------------------------------------------------------------
MaxTextLen == 4       \* characters of a string given to truncate_to_width
MaxWidth == 5         \* widest terminal / column budget
MaxBodyLines == 2     \* lines of a slide body given to the layout
MaxLineLen == 3       \* characters of one such line

EllipsisChar == "~"              \* stands for the ellipsis character
NarrowChars == {"a"}             \* East Asian Width other than F, W
WideChars == {"W"}               \* East Asian Width F or W
Chars == NarrowChars \cup WideChars

\* Strings of at most n characters, as sequences of characters.
Strings(n) == UNION {[1..k -> Chars] : k \in 0..n}

loop ==
    <<slides, current_index, scroll_offset, show_notes, notes_height, moved,
      pc, branch, keypress, selected, num_str, height,
      total_content_height, available_height, needs_scroll, frame,
      screen_lines>>

\* The object as constructed on an empty deck; run() is not entered.
Idle ==
    /\ slides = <<>>
    /\ current_index = 0
    /\ scroll_offset = 0
    /\ show_notes = FALSE
    /\ notes_height = InitNotesHeight
    /\ moved = FALSE
    /\ pc = "idle"
    /\ branch = ""
    /\ keypress = ""
    /\ selected = NoSelection
    /\ num_str = <<>>
    /\ height = 0
    /\ total_content_height = 0
    /\ available_height = 0
    /\ needs_scroll = FALSE
    /\ frame = NoFrame
    /\ screen_lines = <<>>

\* ------------------------------------------------------- Text metrics
char_width(c) == IF c \in WideChars THEN 2 ELSE 1

RECURSIVE get_display_width(_)
get_display_width(text) ==
    IF text = <<>> THEN 0
    ELSE char_width(Head(text)) + get_display_width(Tail(text))

\* The loop of truncate_to_width from the character at the head of `text`
\* on: the characters kept, and whether the loop broke off.
RECURSIVE truncate_scan(_, _, _)
truncate_scan(text, current_width, effective_max) ==
    IF text = <<>> THEN [result |-> <<>>, truncated |-> FALSE]
    ELSE IF current_width + char_width(Head(text)) > effective_max
    THEN [result |-> <<>>, truncated |-> TRUE]
    ELSE LET rest == truncate_scan(Tail(text),
                                   current_width + char_width(Head(text)),
                                   effective_max)
         IN  [result |-> <<Head(text)>> \o rest.result,
              truncated |-> rest.truncated]

truncate_to_width_no_reserve(text, max_width, add_indicator) ==
    LET scan == truncate_scan(text, 0, max_width)
    IN  IF scan.truncated /\ add_indicator
        THEN scan.result \o <<EllipsisChar>>
        ELSE scan.result

truncate_to_width(text, max_width, add_indicator) ==
    LET effective_max == IF add_indicator THEN max_width - 1 ELSE max_width
        scan == truncate_scan(text, 0, effective_max)
    IN  IF scan.truncated /\ add_indicator
        THEN scan.result \o <<EllipsisChar>>
        ELSE scan.result

TruncateCalls ==
    [fn : {"truncate_to_width"}, text : Strings(MaxTextLen),
     max_width : 0..MaxWidth, add_indicator : BOOLEAN, done : {FALSE},
     result : {<<>>}]

InitTruncate == Idle /\ call \in TruncateCalls

CallTruncate ==
    /\ call.fn = "truncate_to_width"
    /\ ~call.done
    /\ call' = [call EXCEPT
                  !.done = TRUE,
                  !.result = truncate_to_width(call.text, call.max_width,
                                               call.add_indicator)]
    /\ UNCHANGED loop

SpecTruncate == InitTruncate /\ [][CallTruncate]_vars

\* ------------------------------------------------------ Layout engine
Spaces(n) == [i \in 1..n |-> " "]

\* max over the lines of their display width (lines 157-161).
RECURSIVE max_content_width(_)
max_content_width(lines) ==
    IF lines = <<>> THEN 0
    ELSE Max(get_display_width(Head(lines)), max_content_width(Tail(lines)))

left_padding_half_width(lines, width) == width \div 2

left_padding(lines, width) ==
    IF max_content_width(lines) >= width THEN 0
    ELSE (width - max_content_width(lines)) \div 2

\* One line of _prepare_slide_content (lines 170-187).
prepare_line(line0, padding, width) ==
    LET line == IF padding + get_display_width(line0) > width
                THEN truncate_to_width(line0, width - padding, TRUE)
                ELSE line0
        padded_line == Spaces(padding) \o line
        padded_width == get_display_width(padded_line)
    IN  IF padded_width < width
        THEN padded_line \o Spaces(width - padded_width)
        ELSE padded_line

\* _prepare_slide_content on the lines of text.split('\n').
prepare_slide_content(lines, width) ==
    [i \in 1..Len(lines) |->
        prepare_line(lines[i], left_padding(lines, width), width)]

Bodies ==
    UNION {[1..k -> Strings(MaxLineLen)] : k \in 1..MaxBodyLines}

PrepareCalls ==
    [fn : {"_prepare_slide_content"}, lines : Bodies, width : 0..MaxWidth,
     done : {FALSE}, result : {<<>>}]

InitPrepare == Idle /\ call \in PrepareCalls

CallPrepare ==
    /\ call.fn = "_prepare_slide_content"
    /\ ~call.done
    /\ call' = [call EXCEPT
                  !.done = TRUE,
                  !.result = prepare_slide_content(call.lines, call.width)]
    /\ UNCHANGED loop

SpecPrepare == InitPrepare /\ [][CallPrepare]_vars

\* -------------------------------------------------- fenced block content
MaxBodyLen == 5       \* lines of a slide body given to _extract_ascii_art

\* Lines of a body: two spellings of a fence marker, two text lines and
\* the empty line.
FenceLines == {":::", "  :::text"}
BodyLines == FenceLines \cup {"a", "b", ""}

\* line.strip().startswith(fence): the marker is written ::: here
is_fence(line) == line \in FenceLines

\* The loop of _extract_ascii_art: art_lines collected from `lines` on.
RECURSIVE art_lines(_, _)
art_lines(lines, in_code_block) ==
    IF lines = <<>> THEN <<>>
    ELSE IF is_fence(Head(lines))
    THEN art_lines(Tail(lines), ~in_code_block)
    ELSE IF in_code_block
    THEN <<Head(lines)>> \o art_lines(Tail(lines), in_code_block)
    ELSE art_lines(Tail(lines), in_code_block)

\* The lines up to the first fence marker, which closes the block.
RECURSIVE until_fence(_)
until_fence(lines) ==
    IF lines = <<>> \/ is_fence(Head(lines)) THEN <<>>
    ELSE <<Head(lines)>> \o until_fence(Tail(lines))

\* The lines after the first fence marker.
RECURSIVE after_fence(_)
after_fence(lines) ==
    IF lines = <<>> THEN <<>>
    ELSE IF is_fence(Head(lines)) THEN Tail(lines)
    ELSE after_fence(Tail(lines))

extract_ascii_art_first_block(lines) ==
    IF until_fence(after_fence(lines)) # <<>>
    THEN until_fence(after_fence(lines))
    ELSE lines

\* _extract_ascii_art on the lines of content.split('\n'); the result as
\* the lines of the string returned.
extract_ascii_art(lines) ==
    IF art_lines(lines, FALSE) # <<>> THEN art_lines(lines, FALSE)
    ELSE lines

ExtractCalls ==
    [fn : {"_extract_ascii_art"},
     lines : UNION {[1..k -> BodyLines] : k \in 1..MaxBodyLen},
     done : {FALSE}, result : {<<>>}]

InitExtract == Idle /\ call \in ExtractCalls

CallExtract ==
    /\ call.fn = "_extract_ascii_art"
    /\ ~call.done
    /\ call' = [call EXCEPT !.done = TRUE,
                            !.result = extract_ascii_art(call.lines)]
    /\ UNCHANGED loop

SpecExtract == InitExtract /\ [][CallExtract]_vars

\* --------------------------------------------------------- Text wrapper
MaxWrapLen == 6       \* characters of a text given to _wrap_text

WordChars == {"a", "b"}
ExampleText == <<"a", " ", "b", " ", "c", " ", "d", " ", "e">>
WrapTexts ==
    UNION {[1..k -> WordChars \cup {" "}] : k \in 0..MaxWrapLen}
        \cup {ExampleText}

\* The first word of a text that starts with a word character.
RECURSIVE first_word(_)
first_word(text) ==
    IF text = <<>> \/ Head(text) = " " THEN <<>>
    ELSE <<Head(text)>> \o first_word(Tail(text))

\* text.split(): the words between runs of whitespace.
RECURSIVE split(_)
split(text) ==
    IF text = <<>> THEN <<>>
    ELSE IF Head(text) = " " THEN split(Tail(text))
    ELSE LET word == first_word(text)
         IN  <<word>> \o split(SubSeq(text, Len(word) + 1, Len(text)))

\* ' '.join(words)
RECURSIVE join(_)
join(words) ==
    IF words = <<>> THEN <<>>
    ELSE IF Len(words) = 1 THEN Head(words)
    ELSE Head(words) \o <<" ">> \o join(Tail(words))

flush(lines, current_line) ==
    IF current_line # <<>> THEN Append(lines, join(current_line)) ELSE lines

RECURSIVE wrap_scan_ignores_space(_, _, _, _, _)
wrap_scan_ignores_space(words, lines, current_line, current_length, width) ==
    IF words = <<>> THEN flush(lines, current_line)
    ELSE LET word == Head(words)
             word_len == Len(word)
         IN  IF current_length + word_len <= width
             THEN wrap_scan_ignores_space(Tail(words), lines,
                      Append(current_line, word),
                      current_length + word_len, width)
             ELSE wrap_scan_ignores_space(Tail(words),
                      flush(lines, current_line), <<word>>, word_len, width)

RECURSIVE wrap_scan_drops_overlong(_, _, _, _, _)
wrap_scan_drops_overlong(words, lines, current_line, current_length, width) ==
    IF words = <<>> THEN flush(lines, current_line)
    ELSE LET word == Head(words)
             word_len == Len(word)
         IN  IF current_length + word_len
                  + (IF current_line # <<>> THEN 1 ELSE 0) <= width
             THEN wrap_scan_drops_overlong(Tail(words), lines,
                      Append(current_line, word),
                      current_length + word_len
                          + (IF Len(current_line) + 1 > 1 THEN 1 ELSE 0),
                      width)
             ELSE IF word_len > width
             THEN wrap_scan_drops_overlong(Tail(words),
                      flush(lines, current_line), <<>>, 0, width)
             ELSE wrap_scan_drops_overlong(Tail(words),
                      flush(lines, current_line), <<word>>, word_len, width)

\* The loop of _wrap_text over the words left, and the flush after it.
RECURSIVE wrap_scan(_, _, _, _, _)
wrap_scan(words, lines, current_line, current_length, width) ==
    IF words = <<>> THEN flush(lines, current_line)
    ELSE LET word == Head(words)
             word_len == Len(word)
         IN  IF current_length + word_len
                  + (IF current_line # <<>> THEN 1 ELSE 0) <= width
             THEN wrap_scan(Tail(words), lines, Append(current_line, word),
                      current_length + word_len
                          + (IF Len(current_line) + 1 > 1 THEN 1 ELSE 0),
                      width)
             ELSE wrap_scan(Tail(words), flush(lines, current_line),
                      <<word>>, word_len, width)

wrap_text(text, width) ==
    LET lines == wrap_scan(split(text), <<>>, <<>>, 0, width)
    IN  IF lines # <<>> THEN lines ELSE << <<>> >>

WrapCalls ==
    [fn : {"_wrap_text"}, text : WrapTexts, width : 0..MaxWidth,
     done : {FALSE}, result : {<<>>}]

InitWrap == Idle /\ call \in WrapCalls

CallWrap ==
    /\ call.fn = "_wrap_text"
    /\ ~call.done
    /\ call' = [call EXCEPT !.done = TRUE,
                            !.result = wrap_text(call.text, call.width)]
    /\ UNCHANGED loop

SpecWrap == InitWrap /\ [][CallWrap]_vars

\* ------------------------------------------------------------ Status bar
MaxTitleLen == 8      \* characters of a slide title
MaxStatusWidth == 80  \* terminal widths 0..MaxStatusWidth

ScrollMark == "^"     \* stands for the up-down arrow of the scroll indicator
DigitChars == <<"0", "1", "2", "3", "4", "5", "6", "7", "8", "9">>

\* str(n) of an integer.
RECURSIVE str(_)
str(n) ==
    IF n < 0 THEN <<"-">> \o str(-n)
    ELSE IF n < 10 THEN <<DigitChars[n + 1]>>
    ELSE str(n \div 10) \o <<DigitChars[(n % 10) + 1]>>

ScrollHint ==
    <<"[", "j", "/", "k", "]", "s", "c", "r", "o", "l", "l", " ", "[",
      "s", "]", "n", "o", "t", "e", "s", " ", "[", "n", "]", "e", "x",
      "t", " ", "[", "p", "]", "r", "e", "v", " ", "[", "q", "]", "u",
      "i", "t">>
PlainHint ==
    <<"[", "s", "]", "n", "o", "t", "e", "s", " ", "[", "n", "]", "e",
      "x", "t", " ", "[", "p", "]", "r", "e", "v", " ", "[", "h", "]",
      "e", "l", "p", " ", "[", "q", "]", "u", "i", "t">>
NotesOn ==
    <<" ", "[", "n", "o", "t", "e", "s", " ", "O", "N", "]">>

position(a) ==
    <<"[">> \o str(a.current_index + 1) \o <<"/">> \o str(a.n_slides)
        \o <<"]">>

scroll_indicator(a) ==
    IF a.needs_scroll
    THEN <<" ", ScrollMark>> \o str(a.scroll_offset + 1) \o <<"/">>
             \o str(a.total_lines - a.visible_lines + 1)
    ELSE <<>>

notes_indicator(a) == IF a.show_notes THEN NotesOn ELSE <<>>

help_hint(a) == IF a.needs_scroll THEN ScrollHint ELSE PlainHint

\* _render_status_bar: the left part `status` and the line printed.
render_status_bar(a) ==
    LET width == a.width
        whole == <<" ">> \o position(a) \o scroll_indicator(a)
                     \o notes_indicator(a) \o <<" ", " ">> \o a.title
        min_spacing == 2
        room == width - Len(whole) - Len(help_hint(a)) - min_spacing
        max_title_len == width - Len(position(a)) - Len(scroll_indicator(a))
                             - Len(help_hint(a)) - 8
        truncate == room < 1 /\ max_title_len > 3
        truncated_title == py_slice(a.title, 0, max_title_len - 1)
                               \o <<EllipsisChar>>
        status == IF truncate
                  THEN <<" ">> \o position(a) \o scroll_indicator(a)
                           \o <<" ", " ">> \o truncated_title
                  ELSE whole
        available_for_padding ==
            IF truncate
            THEN width - Len(status) - Len(help_hint(a)) - min_spacing
            ELSE room
        padding == Max(1, available_for_padding)
        status_line == status \o Spaces(padding) \o help_hint(a)
    IN  [status |-> status,
         truncated |-> truncate,
         status_line |->
             IF Len(status_line) < width
             THEN status_line \o Spaces(width - Len(status_line))
             ELSE py_slice(status_line, 0, width)]

TitleText(k) == [i \in 1..k |-> IF i % 2 = 1 THEN "a" ELSE "b"]

StatusCalls ==
    {c \in [fn : {"_render_status_bar"},
            width : 0..MaxStatusWidth,
            n_slides : 1..MaxSlides,
            current_index : 0..(MaxSlides - 1),
            title : {TitleText(k) : k \in 0..MaxTitleLen},
            show_notes : BOOLEAN,
            needs_scroll : BOOLEAN,
            scroll_offset : 0..1,
            total_lines : {MaxLines},
            visible_lines : {(MaxHeight \div 2) - StatusBarLines},
            done : {FALSE}, result : {<<>>}] :
        c.current_index < c.n_slides}

InitStatus == Idle /\ call \in StatusCalls

CallStatus ==
    /\ call.fn = "_render_status_bar"
    /\ ~call.done
    /\ call' = [call EXCEPT !.done = TRUE,
                            !.result = render_status_bar(call)]
    /\ UNCHANGED loop

SpecStatus == InitStatus /\ [][CallStatus]_vars

\* ----------------------------------------------------------- Notes panel
MaxWordLen == 14      \* characters of a word of the speaker notes
MaxNoteWords == 2     \* words of a paragraph of the speaker notes
MaxParagraphs == 2    \* paragraphs of the speaker notes
MaxNotesWidth == 20   \* terminal widths 0..MaxNotesWidth
MaxNotesRows == 4     \* largest notes_height of a panel call

\* Stand-ins for the box-drawing characters.
Corner == "+"
Horizontal == "-"
Vertical == "|"

NoNotes ==
    <<"(", "N", "o", " ", "s", "p", "e", "a", "k", "e", "r", " ", "n",
      "o", "t", "e", "s", ")">>
PanelTitle ==
    <<" ", "S", "P", "E", "A", "K", "E", "R", " ", "N", "O", "T", "E",
      "S">>

Whitespace == {" ", "\n"}

\* text.strip()
RECURSIVE lstrip(_)
lstrip(text) ==
    IF text # <<>> /\ Head(text) \in Whitespace THEN lstrip(Tail(text))
    ELSE text

RECURSIVE rstrip(_)
rstrip(text) ==
    IF text # <<>> /\ text[Len(text)] \in Whitespace
    THEN rstrip(SubSeq(text, 1, Len(text) - 1))
    ELSE text

strip(text) == rstrip(lstrip(text))

\* The text up to the first newline.
RECURSIVE first_line(_)
first_line(text) ==
    IF text = <<>> \/ Head(text) = "\n" THEN <<>>
    ELSE <<Head(text)>> \o first_line(Tail(text))

\* text.split('\n'): one more part than there are newlines.
RECURSIVE split_lines(_)
split_lines(text) ==
    LET line == first_line(text)
    IN  IF Len(line) = Len(text) THEN <<line>>
        ELSE <<line>> \o split_lines(SubSeq(text, Len(line) + 2, Len(text)))

Repeat(c, n) == [i \in 1..n |-> c]

\* The loop over the paragraphs of the notes.
RECURSIVE wrap_paragraphs(_, _)
wrap_paragraphs(paragraphs, inner_width) ==
    IF paragraphs = <<>> THEN <<>>
    ELSE (IF strip(Head(paragraphs)) # <<>>
          THEN wrap_text(strip(Head(paragraphs)), inner_width)
          ELSE << <<>> >>)
         \o wrap_paragraphs(Tail(paragraphs), inner_width)

title_line(width) ==
    <<Vertical>> \o PanelTitle \o Spaces(width - 17) \o <<Vertical>>

\* _render_notes_panel: the rows it prints.
render_notes_panel(notes, width, panel_height) ==
    LET notes_text == IF notes # <<>> THEN strip(notes) ELSE NoNotes
        inner_width == width - 4
        wrapped_lines == wrap_paragraphs(split_lines(notes_text), inner_width)
        available_content_lines == panel_height - 4
    IN  [top_border |->
             <<Corner>> \o Repeat(Horizontal, width - 2) \o <<Corner>>,
         title_line |-> title_line(width),
         separator |->
             <<Vertical>> \o Repeat(Horizontal, width - 2) \o <<Vertical>>,
         content_lines |->
             [i \in 1..available_content_lines |->
                 IF i - 1 < Len(wrapped_lines)
                 THEN <<Vertical, " ">> \o wrapped_lines[i]
                          \o Spaces(inner_width - Len(wrapped_lines[i]))
                          \o <<" ", Vertical>>
                 ELSE <<Vertical>> \o Spaces(width - 2) \o <<Vertical>>],
         bottom_border |->
             <<Corner>> \o Repeat(Horizontal, width - 2) \o <<Corner>>]

\* Speaker notes: paragraphs of words, the words one or MaxWordLen long.
NoteWords == {Repeat("a", 1), Repeat("a", MaxWordLen)}
NoteParagraphs ==
    {join(ws) : ws \in UNION {[1..k -> NoteWords] : k \in 0..MaxNoteWords}}

RECURSIVE join_lines(_)
join_lines(paragraphs) ==
    IF paragraphs = <<>> THEN <<>>
    ELSE IF Len(paragraphs) = 1 THEN Head(paragraphs)
    ELSE Head(paragraphs) \o <<"\n">> \o join_lines(Tail(paragraphs))

NotesTexts ==
    {join_lines(ps) :
        ps \in UNION {[1..k -> NoteParagraphs] : k \in 0..MaxParagraphs}}

NotesCalls ==
    [fn : {"_render_notes_panel"}, notes : NotesTexts,
     width : 0..MaxNotesWidth, notes_height : {NotesMin, MaxNotesRows},
     done : {FALSE}, result : {<<>>}]

InitNotes == Idle /\ call \in NotesCalls

CallNotes ==
    /\ call.fn = "_render_notes_panel"
    /\ ~call.done
    /\ call' = [call EXCEPT
                   !.done = TRUE,
                   !.result = render_notes_panel(call.notes, call.width,
                                  call.notes_height + NotesBorder)]
    /\ UNCHANGED loop

SpecNotes == InitNotes /\ [][CallNotes]_vars

\* --------------------------------------------------------- Slide loading
MaxFileLen == 5       \* characters of a slide file before its notes

Untitled == <<"U", "n", "t", "i", "t", "l", "e", "d">>
FileChars == {"#", " ", "a", "\n"}
FileTexts == UNION {[1..k -> FileChars] : k \in 0..MaxFileLen}

\* text.replace('# ', ''): every occurrence, left to right.
RECURSIVE remove_hash(_)
remove_hash(text) ==
    IF text = <<>> THEN <<>>
    ELSE IF Len(text) >= 2 /\ text[1] = "#" /\ text[2] = " "
    THEN remove_hash(SubSeq(text, 3, Len(text)))
    ELSE <<Head(text)>> \o remove_hash(Tail(text))

\* The title _load_slides gives a slide whose file reads `text` up to the
\* speaker notes.
load_title(text) ==
    LET slide_content == strip(text)
        lines == split_lines(slide_content)
    IN  IF lines # <<>> THEN remove_hash(lines[1]) ELSE Untitled

TitleCalls ==
    [fn : {"_load_slides"}, text : FileTexts, done : {FALSE},
     result : {<<>>}]

InitTitle == Idle /\ call \in TitleCalls

CallTitle ==
    /\ call.fn = "_load_slides"
    /\ ~call.done
    /\ call' = [call EXCEPT !.done = TRUE, !.result = load_title(call.text)]
    /\ UNCHANGED loop

SpecTitle == InitTitle /\ [][CallTitle]_vars

\* ------------------------------------------------------------ claims

\* C1: for a deck of N >= 1 slides the current slide index stays in
\* [0, N-1] after any sequence of key events.
C1_IndexInRange ==
    Len(slides) >= 1 => current_index \in 0..(Len(slides) - 1)

\* Next was pressed on the last slide of a full deck: next_slide returned
\* False and the index is still N-1.
C1_Witness ==
    /\ pc = "normal"
    /\ branch = "next"
    /\ moved = FALSE
    /\ Len(slides) = MaxSlides
    /\ current_index = Len(slides) - 1

\* availableHeight as the specification defines it: never below 1.
SpecAvailableHeight == Max(1, available_height)

\* C2: after a render, 0 <= scrollOffset <= max(0, totalContentLines -
\* availableHeight) for every terminal height and every notes-panel state,
\* availableHeight being max(1, height - 1 - notesPanelHeight).
C2_ScrollClamp ==
    /\ 0 <= scroll_offset
    /\ scroll_offset <= Max(0, total_content_height - SpecAvailableHeight)

\* C3: every step that changes current_index leaves scroll_offset = 0.
C3_ScrollResetOnSlideChange ==
    [][current_index' # current_index => scroll_offset' = 0]_vars

\* The index browser moved from a scrolling slide to another scrolling
\* slide, which is shown from its top.
C3_Witness ==
    /\ pc = "normal"
    /\ branch = "index"
    /\ keypress \in IndexConfirmKeys
    /\ moved = TRUE
    /\ current_index = Len(slides) - 1
    /\ needs_scroll
    /\ scroll_offset = 0

\* What a handler that changes nothing itself leaves behind once its
\* closing render has run: index and notes state as they were, the scroll
\* offset re-clamped to the terminal height that render read.
OnlyReclamped ==
    /\ UNCHANGED <<current_index, show_notes, notes_height>>
    /\ scroll_offset' <= scroll_offset
    /\ height' = height => scroll_offset' = scroll_offset

\* The number entry ends with a slide number of the deck.
GotoInRange ==
    /\ keypress' = "ENTER"
    /\ num_str # <<>>
    /\ 1 <= int(num_str)
    /\ int(num_str) <= Len(slides)

\* C4: goto(n) sets current_index = n-1 and scroll_offset = 0 when
\* 1 <= n <= N; for any other n, and for a cancelled or empty entry, it
\* leaves current_index, scroll_offset, show_notes and notes_height
\* unchanged.
C4_GotoOrNoop ==
    [][(pc = "goto" /\ pc' # "goto") =>
         IF GotoInRange
         THEN /\ current_index' = int(num_str) - 1
              /\ scroll_offset' = 0
              /\ pc' = "normal"
         ELSE /\ UNCHANGED nav
              /\ pc' = "normal"]_vars

\* C4 (amended): as C4, but after an out-of-range, cancelled or empty
\* entry the scroll offset is unchanged only if the terminal height is the
\* one the previous render read; otherwise the closing render re-clamps it.
C4_GotoOrReclamp ==
    [][(pc = "goto" /\ pc' # "goto") =>
         IF GotoInRange
         THEN /\ current_index' = int(num_str) - 1
              /\ scroll_offset' = 0
              /\ pc' = "normal"
         ELSE /\ OnlyReclamped
              /\ pc' = "normal"]_vars

\* An entry that goto_slide rejected was made on a scrolled slide other
\* than the first, and the slide and its scroll offset are still there.
C4_Witness ==
    /\ pc = "normal"
    /\ branch = "goto"
    /\ keypress = "ENTER"
    /\ moved = FALSE
    /\ current_index = Len(slides) - 1
    /\ current_index > 0
    /\ scroll_offset > 0

\* C5: next sets current_index to min(current_index+1, N-1), prev sets it
\* to max(current_index-1, 0), and each resets scroll_offset to 0 in every
\* state, next on the last slide and prev on the first slide included.
C5_NextPrevReset ==
    [][/\ (pc = "normal" /\ branch' = "next" /\ keypress' \in NextKeys) =>
            /\ current_index' = Min(current_index + 1, Len(slides) - 1)
            /\ scroll_offset' = 0
       /\ (pc = "normal" /\ branch' = "prev" /\ keypress' \in PrevKeys) =>
            /\ current_index' = Max(current_index - 1, 0)
            /\ scroll_offset' = 0]_vars

\* C5 (amended): the index moves as in C5; scroll_offset is reset to 0
\* when the slide changes, and next on the last slide and prev on the first
\* slide leave it as it is (re-clamped by the closing render).
C5_NextPrevResetOnChange ==
    [][/\ (pc = "normal" /\ branch' = "next" /\ keypress' \in NextKeys) =>
            /\ current_index' = Min(current_index + 1, Len(slides) - 1)
            /\ IF current_index < Len(slides) - 1
               THEN scroll_offset' = 0
               ELSE OnlyReclamped
       /\ (pc = "normal" /\ branch' = "prev" /\ keypress' \in PrevKeys) =>
            /\ current_index' = Max(current_index - 1, 0)
            /\ IF current_index > 0
               THEN scroll_offset' = 0
               ELSE OnlyReclamped]_vars

\* Next was pressed on the last slide while it was scrolled: it is still
\* scrolled.
C5_Witness ==
    /\ pc = "normal"
    /\ branch = "next"
    /\ moved = FALSE
    /\ current_index = Len(slides) - 1
    /\ scroll_offset > 0

\* C6: notes_height is in [2, 20] in every reachable state; grow with the
\* panel visible sets it to min(notes_height+2, 20), shrink to
\* max(notes_height-2, 2).
C6_NotesHeightRange ==
    [][/\ notes_height \in NotesMin..NotesMax
       /\ notes_height' \in NotesMin..NotesMax
       /\ (pc = "normal" /\ branch' = "grow_notes" /\ show_notes) =>
            notes_height' = Min(notes_height + NotesStep, NotesMax)
       /\ (pc = "normal" /\ branch' = "shrink_notes" /\ show_notes) =>
            notes_height' = Max(notes_height - NotesStep, NotesMin)]_vars

\* The visible panel was grown to its largest height.
C6_Witness ==
    /\ pc = "normal"
    /\ branch = "grow_notes"
    /\ show_notes
    /\ notes_height = NotesMax

\* C7: grow and shrink issued while the panel is hidden change nothing in
\* the navigator state; toggle flips show_notes only.
C7_NotesFrame ==
    [][/\ (pc = "normal" /\ ~show_notes
             /\ branch' \in {"grow_notes", "shrink_notes"}) =>
            UNCHANGED nav
       /\ (pc = "normal" /\ branch' = "toggle_notes") =>
            /\ show_notes' = ~show_notes
            /\ UNCHANGED <<current_index, scroll_offset, notes_height>>]_vars

\* C7 (amended): grow and shrink while hidden change nothing; toggle flips
\* show_notes and leaves current_index and notes_height unchanged, while
\* the render that closes it may lower scroll_offset to the new maximum.
C7_NotesFrameReclamp ==
    [][/\ (pc = "normal" /\ ~show_notes
             /\ branch' \in {"grow_notes", "shrink_notes"}) =>
            UNCHANGED nav
       /\ (pc = "normal" /\ branch' = "toggle_notes") =>
            /\ show_notes' = ~show_notes
            /\ UNCHANGED <<current_index, notes_height>>
            /\ scroll_offset' <= scroll_offset]_vars

\* The panel was resized away from its initial height, hidden, and shown
\* again: the height it was given is in effect.
C7_Witness ==
    /\ pc = "normal"
    /\ branch = "toggle_notes"
    /\ show_notes
    /\ notes_height = NotesMax
    /\ scroll_offset > 0

\* C8: entering index-browse sets the selection to current_index; up and
\* down move it by one clamped to [0, N-1], so it is a valid slide index in
\* every index-browse state; confirm sets current_index to the selection,
\* resets scroll_offset to 0 and returns to the main loop.
C8_IndexBrowse ==
    [][/\ pc = "index" => selected \in 0..(Len(slides) - 1)
       /\ pc' = "index" => selected' \in 0..(Len(slides) - 1)
       /\ (pc = "normal" /\ pc' = "index") => selected' = current_index
       /\ (pc = "index" /\ keypress' = "k" /\ pc' = "index") =>
            selected' = Max(0, selected - 1)
       /\ (pc = "index" /\ keypress' = "j" /\ pc' = "index") =>
            selected' = Min(Len(slides) - 1, selected + 1)
       /\ (pc = "index" /\ keypress' \in IndexConfirmKeys) =>
            /\ current_index' = selected
            /\ scroll_offset' = 0
            /\ pc' = "normal"]_vars

\* The selection was moved to the last slide of a full deck and confirmed.
C8_Witness ==
    /\ pc = "normal"
    /\ branch = "index"
    /\ keypress \in IndexConfirmKeys
    /\ Len(slides) = MaxSlides
    /\ current_index = Len(slides) - 1

\* A cancel key of the index browser: the keys of its cancel branch that
\* its earlier branches have not taken.
IsIndexCancel == pc = "index" /\ keypress' \in IndexCancelKeys

\* C9: cancelling index-browse returns to the main loop with
\* current_index, scroll_offset, show_notes and notes_height unchanged,
\* wherever the selection was.
C9_IndexCancel ==
    [][IsIndexCancel => (pc' = "normal" /\ UNCHANGED nav)]_vars

\* C9 (amended): as C9, but the scroll offset is unchanged only if the
\* terminal height is the one the previous render read; otherwise the
\* closing render re-clamps it.
C9_IndexCancelReclamp ==
    [][IsIndexCancel => (pc' = "normal" /\ OnlyReclamped)]_vars

\* The browser was left with a cancel key on a scrolled slide, which is
\* still the current slide and still scrolled.
C9_Witness ==
    /\ pc = "normal"
    /\ branch = "index"
    /\ keypress \in IndexCancelKeys
    /\ current_index = Len(slides) - 1
    /\ current_index > 0
    /\ scroll_offset > 0

\* C10: Help followed by any single key returns to the main loop with
\* current_index, scroll_offset, show_notes and notes_height as they were
\* before Help and the session still running.
C10_HelpPassThrough ==
    [][/\ (pc = "normal" /\ branch' = "help") =>
            (pc' = "help" /\ UNCHANGED nav)
       /\ (pc = "help" /\ pc' # "help") =>
            (pc' = "normal" /\ UNCHANGED nav)]_vars

\* C10 (amended): as C10, but the scroll offset is unchanged only if the
\* terminal height is the one the previous render read; otherwise the
\* closing render re-clamps it.
C10_HelpPassThroughReclamp ==
    [][/\ (pc = "normal" /\ branch' = "help") =>
            (pc' = "help" /\ UNCHANGED nav)
       /\ (pc = "help" /\ pc' # "help") =>
            (pc' = "normal" /\ OnlyReclamped)]_vars

\* The help screen was dismissed with a quit key on a scrolled slide: the
\* session is running and the slide is still scrolled.
C10_Witness ==
    /\ pc = "normal"
    /\ branch = "help"
    /\ keypress \in QuitKeys
    /\ current_index > 0
    /\ show_notes
    /\ scroll_offset > 0

\* The object state as a frame records it.
NavFrame ==
    [current_index |-> current_index, scroll_offset |-> scroll_offset,
     show_notes |-> show_notes, notes_height |-> notes_height]

\* C11: whenever the main loop waits for a key, the last slide frame
\* printed was computed from the current object state.
C11_FrameIsCurrent == pc = "normal" => frame = NavFrame

\* The main loop waits for a key after the notes panel was switched on over
\* a scrolled slide other than the first: the frame shows all of that.
C11_Witness ==
    /\ pc = "normal"
    /\ branch = "toggle_notes"
    /\ frame.show_notes
    /\ frame.scroll_offset > 0
    /\ frame.current_index > 0

\* C12: a quit key read by the main loop ends the session: the loop is
\* left, the object and the frame stay as they are, nothing is read or
\* rendered afterwards; and if the main loop keeps reading keys and a quit
\* key is then eventually pressed, the session eventually ends.
C12_QuitEnds ==
    /\ [][(pc = "normal" /\ branch' = "quit") =>
            (pc' = "done" /\ UNCHANGED <<nav, layout>>)]_vars
    /\ [][pc # "done"]_vars
    /\ ([]<>(pc = "normal") => <>(pc = "done"))

\* The session was ended by a quit key on a scrolled slide.
C12_Witness ==
    /\ pc = "done"
    /\ branch = "quit"
    /\ keypress \in QuitKeys
    /\ scroll_offset > 0
    /\ frame = NavFrame

\* C13: for all slide bodies and all widths w >= 0, every line returned
\* by _prepare_slide_content has display width exactly w.
C13_LinesExactWidth ==
    (call.fn = "_prepare_slide_content" /\ call.done) =>
        \A i \in 1..Len(call.result) :
            get_display_width(call.result[i]) = call.width

\* C14: for every string, every max_width >= 0 and either add_indicator,
\* the display width of truncate_to_width's result is at most max_width.
C14_TruncateFits ==
    (call.fn = "truncate_to_width" /\ call.done) =>
        get_display_width(call.result) <= call.max_width

IsPrefix(p, s) == Len(p) <= Len(s) /\ SubSeq(s, 1, Len(p)) = p

\* C15: for width w >= 1 and a string wider than w, the result with
\* indicator is a prefix of the string of display width <= w-1 followed by
\* one ellipsis, and is at most w wide; an ellipsis is appended only when
\* at least one character was cut.
C15_EllipsisOnTruncation ==
    (call.fn = "truncate_to_width" /\ call.done /\ call.add_indicator) =>
        LET r == call.result
            kept == SubSeq(r, 1, Len(r) - 1)
            ends == r # <<>> /\ r[Len(r)] = EllipsisChar
        IN  /\ (call.max_width >= 1
                  /\ get_display_width(call.text) > call.max_width) =>
                /\ ends
                /\ IsPrefix(kept, call.text)
                /\ get_display_width(kept) <= call.max_width - 1
                /\ get_display_width(r) <= call.max_width
            /\ ends => (IsPrefix(kept, call.text) /\ Len(kept) < Len(call.text))
            /\ ~ends => r = call.text

\* A string whose second character is wide was cut in the middle: the
\* narrow character is kept and the ellipsis fills the budget of 2.
C15_Witness ==
    /\ call.fn = "truncate_to_width"
    /\ call.done
    /\ call.add_indicator
    /\ call.max_width = 2
    /\ call.text = <<"a", "W", "a">>
    /\ call.result = <<"a", EllipsisChar>>

\* Positions of the fence markers of a body.
FencePositions(lines) == {k \in 1..Len(lines) : is_fence(lines[k])}

\* The lines of a body at the positions in P, in order.
RECURSIVE LinesAt(_, _)
LinesAt(lines, P) ==
    IF P = {} THEN <<>>
    ELSE LET k == CHOOSE x \in P : \A y \in P : x <= y
         IN  <<lines[k]>> \o LinesAt(lines, P \ {k})

\* Positions strictly between the first fence marker and the second (the
\* end of the body when the block is not closed).
FirstBlock(lines) ==
    LET F == FencePositions(lines)
        open == CHOOSE x \in F : \A y \in F : x <= y
        later == F \ {open}
        close == IF later = {} THEN Len(lines) + 1
                 ELSE CHOOSE x \in later : \A y \in later : x <= y
    IN  {k \in 1..Len(lines) : open < k /\ k < close}

\* Positions of the lines inside any fenced block: lines that are no
\* marker and have an odd number of markers before them.
InsideBlocks(lines) ==
    {k \in 1..Len(lines) :
        /\ ~is_fence(lines[k])
        /\ Cardinality({j \in FencePositions(lines) : j < k}) % 2 = 1}

\* C16: the extracted content is the lines between the first opening and
\* the first closing fence marker, without the markers and without any
\* later block; a body without fence marker is returned whole.
C16_FirstBlockOnly ==
    (call.fn = "_extract_ascii_art" /\ call.done) =>
        call.result =
            IF FencePositions(call.lines) = {} THEN call.lines
            ELSE LinesAt(call.lines, FirstBlock(call.lines))

\* C16 (amended): the extracted content is the lines inside every fenced
\* block, in order and without the markers (markers open and close blocks
\* alternately, an unclosed block runs to the end); a body in which no
\* line is inside a block (in particular one without marker) is returned
\* whole.
C16_AllBlocks ==
    (call.fn = "_extract_ascii_art" /\ call.done) =>
        call.result =
            IF InsideBlocks(call.lines) = {} THEN call.lines
            ELSE LinesAt(call.lines, InsideBlocks(call.lines))

\* A body with text around two fenced blocks: both blocks are extracted.
C16_Witness ==
    /\ call.fn = "_extract_ascii_art"
    /\ call.done
    /\ call.lines = <<":::", "a", "  :::text", ":::", "b">>
    /\ call.result = <<"a", "b">>

\* C17: in every render the available content height is
\* max(1, height - 1 - notesPanelHeight), with notesPanelHeight =
\* notesHeight + 4 when the notes are visible and 0 otherwise: it is never
\* below 1, however short the terminal.
C17_AvailableHeightFloor ==
    height # 0 =>
        available_height =
            Max(1, height - StatusBarLines - notes_panel_height(frame))

HasSpace(line) == \E i \in 1..Len(line) : line[i] = " "

\* C18: _wrap_text never returns zero lines (a text without words gives
\* one empty line); every line has at most `width` characters or is a
\* single word longer than `width`; packing is greedy (the first word of a
\* line did not fit on the line before it), and wrap("a b c d e", 3) is
\* ["a b", "c d", "e"].
C18_Wrap ==
    (call.fn = "_wrap_text" /\ call.done) =>
        LET r == call.result
        IN  /\ r # <<>>
            /\ (\A i \in 1..Len(call.text) : call.text[i] = " ") =>
                   r = << <<>> >>
            /\ \A i \in 1..Len(r) :
                   \/ Len(r[i]) <= call.width
                   \/ ~HasSpace(r[i]) /\ Len(r[i]) > call.width
            /\ \A i \in 2..Len(r) :
                   Len(r[i - 1]) + 1 + Len(first_word(r[i])) > call.width
            /\ (call.text = ExampleText /\ call.width = 3) =>
                   r = << <<"a", " ", "b">>, <<"c", " ", "d">>, <<"e">> >>

\* The example of the claim was wrapped.
C18_Witness ==
    /\ call.fn = "_wrap_text"
    /\ call.done
    /\ call.text = ExampleText
    /\ call.width = 3
    /\ call.result = << <<"a", " ", "b">>, <<"c", " ", "d">>, <<"e">> >>

\* C19: the content region of a rendered frame has exactly availableHeight
\* rows.  Content that fits is not scrolled and is shown whole under
\* floor((availableHeight - totalContentLines) / 2) blank rows, with blank
\* rows below to fill; content that does not fit is scrolled and the rows
\* are the availableHeight content lines from the clamped scrollOffset on.
C19_ContentRegion ==
    height # 0 =>
        LET A == SpecAvailableHeight
            total == total_content_height
            off == frame.scroll_offset
            top == (A - total) \div 2
        IN  /\ Len(screen_lines) = A
            /\ total <= A =>
                   /\ ~needs_scroll
                   /\ screen_lines =
                          [i \in 1..A |->
                              IF top < i /\ i <= top + total
                              THEN i - top ELSE 0]
            /\ total > A =>
                   /\ needs_scroll
                   /\ off \in 0..(total - A)
                   /\ screen_lines = [i \in 1..A |-> off + i]

\* C20: the left segment of the status bar is a space, [index/total], the
\* scroll indicator exactly when the content needs scrolling, the
\* [notes ON] marker exactly when the notes are visible, two spaces and the
\* slide title, whole or cut short and ended by one ellipsis; the marker is
\* there also when the title was cut.
C20_LeftSegment ==
    (call.fn = "_render_status_bar" /\ call.done) =>
        LET lead == <<" ">> \o position(call)
                        \o (IF call.needs_scroll THEN scroll_indicator(call)
                            ELSE <<>>)
                        \o (IF call.show_notes THEN NotesOn ELSE <<>>)
                        \o <<" ", " ">>
            left == call.result.status
            shown == SubSeq(left, Len(lead) + 1, Len(left))
        IN  /\ IsPrefix(lead, left)
            /\ \/ shown = call.title
               \/ \E k \in 0..Len(call.title) :
                      shown = SubSeq(call.title, 1, k) \o <<EllipsisChar>>

\* The words of a text: what lies between its spaces and newlines.
words_of(text) ==
    split([i \in 1..Len(text) |-> IF text[i] = "\n" THEN " " ELSE text[i]])

\* C21: at a terminal width of 17 or more and with no word of the notes
\* longer than width - 4, every row of the notes panel (top border, title
\* row, separator, body rows, bottom border) is exactly width characters
\* long, and the panel has exactly notesHeight body rows.
C21_PanelRows ==
    (/\ call.fn = "_render_notes_panel"
     /\ call.done
     /\ call.width >= 17
     /\ \A i \in 1..Len(words_of(call.notes)) :
            Len(words_of(call.notes)[i]) <= call.width - 4) =>
        LET r == call.result
        IN  /\ Len(r.top_border) = call.width
            /\ Len(r.title_line) = call.width
            /\ Len(r.separator) = call.width
            /\ Len(r.bottom_border) = call.width
            /\ Len(r.content_lines) = call.notes_height
            /\ \A i \in 1..Len(r.content_lines) :
                   Len(r.content_lines[i]) = call.width

\* C22: the title of a loaded slide is the first line of its body without
\* a leading "# ", the rest of the line unchanged; the title of an empty
\* body is the placeholder.
C22_Title ==
    (call.fn = "_load_slides" /\ call.done) =>
        LET body == strip(call.text)
            line == first_line(body)
        IN  IF body = <<>> THEN call.result = Untitled
            ELSE call.result =
                     IF IsPrefix(<<"#", " ">>, line)
                     THEN SubSeq(line, 3, Len(line))
                     ELSE line

\* The widest of the lines given to _prepare_slide_content.
WidestLine ==
    CHOOSE m \in 0..(2 * MaxLineLen) :
        /\ \A i \in 1..Len(call.lines) : get_display_width(call.lines[i]) <= m
        /\ \E i \in 1..Len(call.lines) : get_display_width(call.lines[i]) = m

\* Output line i is p spaces, the original line unchanged, and spaces.
Aligned(i, p) ==
    \E trailing \in 0..call.width :
        call.result[i] = Spaces(p) \o call.lines[i] \o Spaces(trailing)

\* C23: when the widest content line fits the terminal, no line is
\* truncated and no ellipsis is added: every output line is the same number
\* of left-padding spaces, the original line unchanged, and trailing spaces.
\* A line is truncated only when the left padding is 0.
C23_AlignmentKept ==
    (call.fn = "_prepare_slide_content" /\ call.done) =>
        /\ WidestLine <= call.width =>
               /\ \E p \in 0..call.width :
                      \A i \in 1..Len(call.lines) : Aligned(i, p)
               /\ \A i \in 1..Len(call.result) :
                      \A j \in 1..Len(call.result[i]) :
                          call.result[i][j] # EllipsisChar
        /\ (\E i \in 1..Len(call.lines) :
                ~Aligned(i, left_padding(call.lines, call.width))) =>
               left_padding(call.lines, call.width) = 0

\* Two lines of different widths, one with a wide character, were centred
\* with a positive left padding and kept their alignment.
C23_Witness ==
    /\ call.fn = "_prepare_slide_content"
    /\ call.done
    /\ Len(call.lines) = 2
    /\ call.lines[1] = <<"W">>
    /\ call.lines[2] = <<"a">>
    /\ call.width = MaxWidth
    /\ left_padding(call.lines, call.width) > 0
    /\ Aligned(1, left_padding(call.lines, call.width))
    /\ Aligned(2, left_padding(call.lines, call.width))

\* The words of the lines, one line after the other.
RECURSIVE words_in(_)
words_in(lines) ==
    IF lines = <<>> THEN <<>>
    ELSE split(Head(lines)) \o words_in(Tail(lines))

\* C24: at every width, the lines _wrap_text returns joined by single
\* spaces are the whitespace-separated words of the text joined by single
\* spaces: the words come out in their order, none dropped, duplicated or
\* split.
C24_WordsPreserved ==
    (call.fn = "_wrap_text" /\ call.done) =>
        /\ join(call.result) = join(split(call.text))
        /\ words_in(call.result) = split(call.text)

\* A text of several words, with runs of spaces, was wrapped at width 0,
\* smaller than every word, and came out one word a line.
C24_Witness ==
    /\ call.fn = "_wrap_text"
    /\ call.done
    /\ call.width = 0
    /\ call.text = <<" ", "a", "b", " ", " ", "a">>
    /\ call.result = << <<"a", "b">>, <<"a">> >>
====
